---------------------------- MODULE Spec2Model ----------------------------
(***************************************************************************)
(* A model of the LC-3 virtual machine of this repository: the register    *)
(* file (lc3/registers.rs), the memory with its memory-mapped keyboard     *)
(* (lc3/memory.rs), the instruction codec and executor                     *)
(* (lc3/instructions.rs) and the loader and run loop (lc3/machine.rs).     *)
(*                                                                         *)
(* Words are naturals below 2^16; every u16 operation of the source is     *)
(* modelled with its width.  The memory, a zero-initialised array, is a    *)
(* function over the addresses that hold a non-zero word.                  *)
(***************************************************************************)
EXTENDS Integers, Sequences, FiniteSets, TLC

\* ------------------------------------------------------------------ words

\* u16: the number of values of a word, and the largest one (u16::MAX)
U16_MOD == 65536
U16_MAX == 65535

RECURSIVE BitAnd(_, _)
\* a & b on naturals
BitAnd(a, b) ==
    IF a = 0 \/ b = 0 THEN 0
    ELSE (a % 2) * (b % 2) + 2 * BitAnd(a \div 2, b \div 2)

RECURSIVE BitOr(_, _)
\* a | b on naturals
BitOr(a, b) ==
    IF a = 0 THEN b
    ELSE IF b = 0 THEN a
    ELSE (IF a % 2 = 1 \/ b % 2 = 1 THEN 1 ELSE 0) + 2 * BitOr(a \div 2, b \div 2)

\* x >> n on u16
Shr(x, n) == x \div (2 ^ n)

\* x << n on u16, n < 16: the bits shifted out are lost
Shl(x, n) == (x * (2 ^ n)) % U16_MOD

\* !x on u16
BitNot(x) == U16_MAX - x

\* u16::overflowing_add(a, b).0
overflowing_add(a, b) == (a + b) % U16_MOD

\* the two bytes taken little-endian
from_le_bytes(hi, lo) == lo * 256 + hi

\* u16::from_be_bytes([hi, lo])
from_be_bytes(hi, lo) == hi * 256 + lo

\* x as u8
as_u8(x) == x % 256

\* ------------------------------------------------------------- registers

PROGRAM_START == 12288

R0 == 0
R1 == 1
R7 == 7
ProgramCounter == 8
Condition == 9

\* the slots of Registers([u16; 10])
RegisterSlots == 0 .. 9

\* ConditionFlag
Positive == 1
Zero == 2
Negative == 4

\* the conversion that knows the registers below R7 only
RegistersEnum_try_from_no_r7(value) ==
    IF value \in 0 .. 6
    THEN [ok |-> TRUE, reg |-> value]
    ELSE [ok |-> FALSE, kind |-> "UnknownRegister", value |-> value]

\* TryFrom<u16> for RegistersEnum
RegistersEnum_try_from(value) ==
    IF value \in 0 .. 9
    THEN [ok |-> TRUE, reg |-> value]
    ELSE [ok |-> FALSE, kind |-> "UnknownRegister", value |-> value]

\* Registers::default
Registers_default ==
    [r \in RegisterSlots |-> IF r = ProgramCounter THEN PROGRAM_START ELSE 0]

\* the flags with the sign taken from bits 15 and 14
update_flags_bit14(regs, register) ==
    LET value == regs[register] IN
    IF value = 0 THEN [regs EXCEPT ![Condition] = Zero]
    ELSE IF Shr(value, 14) # 0 THEN [regs EXCEPT ![Condition] = Negative]
    ELSE [regs EXCEPT ![Condition] = Positive]

\* Registers::update_flags
update_flags(regs, register) ==
    LET value == regs[register] IN
    IF value = 0 THEN [regs EXCEPT ![Condition] = Zero]
    ELSE IF Shr(value, 15) # 0 THEN [regs EXCEPT ![Condition] = Negative]
    ELSE [regs EXCEPT ![Condition] = Positive]

\* ----------------------------------------------------------------- codec

\* the conversion without the last routine: 0x25 is no trap routine
TrapRoutine_try_from_no_halt(value) ==
    CASE value = 32 -> [ok |-> TRUE, routine |-> "GETC"]
      [] value = 33 -> [ok |-> TRUE, routine |-> "OUT"]
      [] value = 34 -> [ok |-> TRUE, routine |-> "PUTS"]
      [] value = 35 -> [ok |-> TRUE, routine |-> "IN"]
      [] value = 36 -> [ok |-> TRUE, routine |-> "PUTSP"]
      [] OTHER -> [ok |-> FALSE, kind |-> "UnknownTrapRoutine", value |-> value]

\* TryFrom<u16> for TrapRoutine
TrapRoutine_try_from(value) ==
    CASE value = 32 -> [ok |-> TRUE, routine |-> "GETC"]
      [] value = 33 -> [ok |-> TRUE, routine |-> "OUT"]
      [] value = 34 -> [ok |-> TRUE, routine |-> "PUTS"]
      [] value = 35 -> [ok |-> TRUE, routine |-> "IN"]
      [] value = 36 -> [ok |-> TRUE, routine |-> "PUTSP"]
      [] value = 37 -> [ok |-> TRUE, routine |-> "HALT"]
      [] OTHER -> [ok |-> FALSE, kind |-> "UnknownTrapRoutine", value |-> value]

\* the extension with the shifted mask kept whole, wider than a word
sign_extend_wide(x, bit_count) ==
    IF BitAnd(Shr(x, bit_count - 1), 1) # 0
    THEN BitOr(x, U16_MAX * (2 ^ bit_count))
    ELSE x

\* sign_extend(x, bit_count)
sign_extend(x, bit_count) ==
    IF BitAnd(Shr(x, bit_count - 1), 1) # 0
    THEN BitOr(x, Shl(U16_MAX, bit_count))
    ELSE x

\* Ok(instruction)
Decoded(ins) == [ok |-> TRUE, ins |-> ins]

\* the two arms with the mode taken from bit 4
ReadArith_bit4(name, value) ==
    LET r0 == RegistersEnum_try_from(BitAnd(Shr(value, 9), 7))
        r1 == RegistersEnum_try_from(BitAnd(Shr(value, 6), 7))
        r2 == RegistersEnum_try_from(BitAnd(value, 7))
    IN  IF ~r0.ok THEN r0
        ELSE IF ~r1.ok THEN r1
        ELSE IF BitAnd(Shr(value, 4), 1) > 0
        THEN Decoded([op |-> name, destination |-> r0.reg, source1 |-> r1.reg,
                      mode |-> "Immediate",
                      source2 |-> sign_extend(BitAnd(value, 31), 5)])
        ELSE IF ~r2.ok THEN r2
        ELSE Decoded([op |-> name, destination |-> r0.reg, source1 |-> r1.reg,
                      mode |-> "Register", source2 |-> r2.reg])

\* the two arms of opcodes 1 and 5 (ADD, AND): immediate or register mode
ReadArith(name, value) ==
    LET r0 == RegistersEnum_try_from(BitAnd(Shr(value, 9), 7))
        r1 == RegistersEnum_try_from(BitAnd(Shr(value, 6), 7))
        r2 == RegistersEnum_try_from(BitAnd(value, 7))
    IN  IF ~r0.ok THEN r0
        ELSE IF ~r1.ok THEN r1
        ELSE IF BitAnd(Shr(value, 5), 1) > 0
        THEN Decoded([op |-> name, destination |-> r0.reg, source1 |-> r1.reg,
                      mode |-> "Immediate",
                      source2 |-> sign_extend(BitAnd(value, 31), 5)])
        ELSE IF ~r2.ok THEN r2
        ELSE Decoded([op |-> name, destination |-> r0.reg, source1 |-> r1.reg,
                      mode |-> "Register", source2 |-> r2.reg])

\* the arms that take a register from bits 11..9 and a 9-bit pc offset
ReadPcRelative(name, value) ==
    LET r0 == RegistersEnum_try_from(BitAnd(Shr(value, 9), 7))
    IN  IF ~r0.ok THEN r0
        ELSE Decoded([op |-> name, register |-> r0.reg,
                      pc_offset |-> sign_extend(BitAnd(value, 511), 9)])

\* the arms that take registers from bits 11..9 and 8..6 and a 6-bit offset
ReadBaseOffset(name, value) ==
    LET r0 == RegistersEnum_try_from(BitAnd(Shr(value, 9), 7))
        r1 == RegistersEnum_try_from(BitAnd(Shr(value, 6), 7))
    IN  IF ~r0.ok THEN r0
        ELSE IF ~r1.ok THEN r1
        ELSE Decoded([op |-> name, register |-> r0.reg, base |-> r1.reg,
                      offset |-> sign_extend(BitAnd(value, 63), 6)])

\* Instructions::read
Instructions_read(value) ==
    LET opcode == Shr(value, 12)
        r1 == RegistersEnum_try_from(BitAnd(Shr(value, 6), 7))
        r0 == RegistersEnum_try_from(BitAnd(Shr(value, 9), 7))
        trap == TrapRoutine_try_from(BitAnd(value, 255))
    IN  CASE opcode = 0 ->
               Decoded([op |-> "Branch",
                        pc_offset |-> sign_extend(BitAnd(value, 511), 9),
                        condition_flag |-> BitAnd(Shr(value, 9), 7)])
          [] opcode = 1 -> ReadArith("Add", value)
          [] opcode = 2 -> ReadPcRelative("Load", value)
          [] opcode = 3 -> ReadPcRelative("Store", value)
          [] opcode = 4 ->
               IF BitAnd(Shr(value, 11), 1) # 0
               THEN Decoded([op |-> "JumpRegister", jump_type |-> "Long",
                             pc_offset |-> sign_extend(BitAnd(value, 2047), 11)])
               ELSE IF ~r1.ok THEN r1
               ELSE Decoded([op |-> "JumpRegister", jump_type |-> "Register",
                             register |-> r1.reg])
          [] opcode = 5 -> ReadArith("And", value)
          [] opcode = 6 -> ReadBaseOffset("LoadRegister", value)
          [] opcode = 7 -> ReadBaseOffset("StoreRegister", value)
          [] opcode = 8 -> Decoded([op |-> "RTI"])
          [] opcode = 9 ->
               IF ~r0.ok THEN r0
               ELSE IF ~r1.ok THEN r1
               ELSE Decoded([op |-> "Not", destination |-> r0.reg, source1 |-> r1.reg])
          [] opcode = 10 -> ReadPcRelative("LoadIndirect", value)
          [] opcode = 11 -> ReadPcRelative("StoreIndirect", value)
          [] opcode = 12 ->
               IF ~r1.ok THEN r1
               ELSE Decoded([op |-> "Jump", source |-> r1.reg])
          [] opcode = 13 -> Decoded([op |-> "RES"])
          [] opcode = 14 -> ReadPcRelative("LoadEffectiveAddress", value)
          [] opcode = 15 ->
               IF ~trap.ok THEN trap
               ELSE Decoded([op |-> "Trap", routine |-> trap.routine])
          [] OTHER -> [ok |-> FALSE, kind |-> "UnknownInstruction", value |-> value]

\* <u16 as TryInto<Instructions>>::try_into, as the run loop uses it: the codec
TryIntoInstructions(value) == Instructions_read(value)

\* ---------------------------------------------------------------- memory

\* the length of Memory([u16; u16::MAX as usize]): the valid indices are 0 .. 65534
MEMORY_LEN == 65535

\* MemoryMappedReg
Kbsr == 65024
Kbdr == 65026

\* Memory::default: every word is 0 (no address holds a non-zero word)
Memory_default == [a \in {} |-> 0]

\* self.0[address] read, for an address inside the array
Peek(mem, address) == IF address \in DOMAIN mem THEN mem[address] ELSE 0

\* self.0[address] = value, for an address inside the array
Poke(mem, address, value) ==
    IF value = 0
    THEN [a \in (DOMAIN mem) \ {address} |-> mem[a]]
    ELSE [a \in (DOMAIN mem) \cup {address} |-> IF a = address THEN value ELSE mem[a]]

\* array indexing panics outside the array
InBounds(address) == address < MEMORY_LEN

(***************************************************************************)
(* The executor and the memory work on a record m of the machine and its   *)
(* streams:                                                                *)
(*   regs, mem      the register file and the memory                       *)
(*   input          the bytes not yet read from the input stream           *)
(*   touched        whether the input stream has been read from            *)
(*   output         the bytes written to the output stream                 *)
(*   flushed        how many of them a flush has pushed out                *)
(*   polls, pollBytes  keyboard polls made, and input bytes they consumed  *)
(*   checks         "on" when the build panics on integer overflow         *)
(*   oflow          whether a plain + or += has overflowed                 *)
(*   result         "Ok" while the operation is still going; else how it   *)
(*                  ended: "Err" (an Err is returned), "Panic" (a panic),  *)
(*                  "Exit" (process::exit)                                 *)
(*   error          the Error of an "Err" result                           *)
(*   trace          what a run-loop iteration fetched, decoded, executed   *)
(* Once result is not "Ok" the rest of the operation does nothing.         *)
(***************************************************************************)

Panic(m) == [m EXCEPT !.result = "Panic"]

NoError == [kind |-> "None", value |-> 0]

\* Error::IoError, as From<std::io::Error> makes it for the ? operator
IoError == [kind |-> "IoError", value |-> 0]

\* return Err(error)
Fail(m, e) == [m EXCEPT !.result = "Err", !.error = e]

\* Memory::write
Memory_write(m, address, value) ==
    IF m.result # "Ok" THEN m
    ELSE IF ~InBounds(address) THEN Panic(m)
    ELSE [m EXCEPT !.mem = Poke(m.mem, address, value)]

\* the poll with the data register left alone: only the status is stored
handle_keyboard_status_only(m) ==
    IF m.result # "Ok" THEN m
    ELSE IF Len(m.input) < 2
    THEN Panic([m EXCEPT !.input = << >>,
                         !.touched = TRUE,
                         !.polls = @ + 1,
                         !.pollBytes = @ + Len(m.input)])
    ELSE LET buffer0 == m.input[1]
             m1 == [m EXCEPT !.input = SubSeq(m.input, 3, Len(m.input)),
                             !.touched = TRUE,
                             !.polls = @ + 1,
                             !.pollBytes = @ + 2]
         IN  IF buffer0 # 0
             THEN Memory_write(m1, Kbsr, Shl(1, 15))
             ELSE Memory_write(m1, Kbsr, 0)

\* Memory::handle_keyboard: read_exact of a two-byte buffer, unwrapped
handle_keyboard(m) ==
    IF m.result # "Ok" THEN m
    ELSE IF Len(m.input) < 2
    THEN Panic([m EXCEPT !.input = << >>,
                         !.touched = TRUE,
                         !.polls = @ + 1,
                         !.pollBytes = @ + Len(m.input)])
    ELSE LET buffer0 == m.input[1]
             m1 == [m EXCEPT !.input = SubSeq(m.input, 3, Len(m.input)),
                             !.touched = TRUE,
                             !.polls = @ + 1,
                             !.pollBytes = @ + 2]
         IN  IF buffer0 # 0
             THEN Memory_write(Memory_write(m1, Kbsr, Shl(1, 15)), Kbdr, buffer0)
             ELSE Memory_write(m1, Kbsr, 0)

\* the read with a poll at both mapped addresses
Memory_read_both_mapped(m, address) ==
    LET m1 == IF address \in {Kbsr, Kbdr} THEN handle_keyboard(m) ELSE m
    IN  IF m1.result # "Ok" THEN [m |-> m1, value |-> 0]
        ELSE IF ~InBounds(address) THEN [m |-> Panic(m1), value |-> 0]
        ELSE [m |-> m1, value |-> Peek(m1.mem, address)]

\* Memory::read: the machine after the read, and the value read
Memory_read(m, address) ==
    LET m1 == IF address = Kbsr THEN handle_keyboard(m) ELSE m
    IN  IF m1.result # "Ok" THEN [m |-> m1, value |-> 0]
        ELSE IF ~InBounds(address) THEN [m |-> Panic(m1), value |-> 0]
        ELSE [m |-> m1, value |-> Peek(m1.mem, address)]

\* --------------------------------------------------------------- streams

\* the UTF-8 encoding of (byte as char), as write!(output, "{character}") emits it
Utf8(byte) ==
    IF byte < 128 THEN << byte >>
    ELSE << 192 + (byte \div 64), 128 + (byte % 64) >>

\* write!(output, "{character}") for character = byte as char
write_char(m, byte) ==
    IF m.result # "Ok" THEN m
    ELSE [m EXCEPT !.output = @ \o Utf8(byte)]

\* output.flush()
flush(m) ==
    IF m.result # "Ok" THEN m
    ELSE [m EXCEPT !.flushed = Len(m.output)]

\* Registers::get
get(m, register) == m.regs[register]

\* Registers::set
set(m, register, value) ==
    IF m.result # "Ok" THEN m
    ELSE [m EXCEPT !.regs[register] = value]

\* Registers::update_flags on the machine record
set_flags(m, register) ==
    IF m.result # "Ok" THEN m
    ELSE [m EXCEPT !.regs = update_flags(m.regs, register)]

\* a + b written with the plain operator: panics on overflow when the build
\* checks overflow, wraps when it does not
plain_add(m, a, b) ==
    IF m.result # "Ok" THEN [m |-> m, value |-> 0]
    ELSE IF a + b > U16_MAX
    THEN [m |-> IF m.checks = "on"
                THEN Panic([m EXCEPT !.oflow = TRUE])
                ELSE [m EXCEPT !.oflow = TRUE],
          value |-> (a + b) % U16_MOD]
    ELSE [m |-> m, value |-> a + b]

\* -------------------------------------------------------------- executor

\* the arithmetic with the sum taken by the plain +
ExecArith_plain(ins, m) ==
    LET a == get(m, ins.source1)
        b == IF ins.mode = "Immediate" THEN ins.source2 ELSE get(m, ins.source2)
        sum == plain_add(m, a, b)
    IN  IF ins.op = "Add"
        THEN set_flags(set(sum.m, ins.destination, sum.value), ins.destination)
        ELSE set_flags(set(m, ins.destination, BitAnd(a, b)), ins.destination)

\* Instructions::Add and Instructions::And: op is the binary operation
ExecArith(ins, m) ==
    LET a == get(m, ins.source1)
        b == IF ins.mode = "Immediate" THEN ins.source2 ELSE get(m, ins.source2)
        result == IF ins.op = "Add" THEN overflowing_add(a, b) ELSE BitAnd(a, b)
    IN  set_flags(set(m, ins.destination, result), ins.destination)

\* the complement stored with the flags left alone
ExecNot_keeping_flags(ins, m) ==
    set(m, ins.destination, BitNot(get(m, ins.source1)))

\* Instructions::Not
ExecNot(ins, m) ==
    set_flags(set(m, ins.destination, BitNot(get(m, ins.source1))), ins.destination)

\* the branch taken when the mask is the very flag set
ExecBranch_exact(ins, m) ==
    IF ins.condition_flag = get(m, Condition)
    THEN set(m, ProgramCounter, overflowing_add(get(m, ProgramCounter), ins.pc_offset))
    ELSE m

\* Instructions::Branch
ExecBranch(ins, m) ==
    IF BitAnd(ins.condition_flag, get(m, Condition)) > 0
    THEN set(m, ProgramCounter, overflowing_add(get(m, ProgramCounter), ins.pc_offset))
    ELSE m

\* Instructions::Jump
ExecJump(ins, m) == set(m, ProgramCounter, get(m, ins.source))

\* Instructions::JumpRegister
ExecJumpRegister(ins, m) ==
    LET m1 == set(m, R7, get(m, ProgramCounter))
    IN  IF ins.jump_type = "Long"
        THEN set(m1, ProgramCounter,
                 overflowing_add(get(m1, ProgramCounter), ins.pc_offset))
        ELSE set(m1, ProgramCounter, get(m1, ins.register))

\* Instructions::Load
ExecLoad(ins, m) ==
    LET address == overflowing_add(get(m, ProgramCounter), ins.pc_offset)
        r == Memory_read(m, address)
    IN  set_flags(set(r.m, ins.register, r.value), ins.register)

\* the indirect load with one read only: the pointer itself is loaded
ExecLoadIndirect_once(ins, m) ==
    LET sum == plain_add(m, get(m, ProgramCounter), ins.pc_offset)
        r1 == IF sum.m.result # "Ok" THEN [m |-> sum.m, value |-> 0]
              ELSE Memory_read(sum.m, sum.value)
    IN  set_flags(set(r1.m, ins.register, r1.value), ins.register)

\* Instructions::LoadIndirect: the address is computed with the plain +
ExecLoadIndirect(ins, m) ==
    LET sum == plain_add(m, get(m, ProgramCounter), ins.pc_offset)
        r1 == IF sum.m.result # "Ok" THEN [m |-> sum.m, value |-> 0]
              ELSE Memory_read(sum.m, sum.value)
        r2 == IF r1.m.result # "Ok" THEN r1 ELSE Memory_read(r1.m, r1.value)
    IN  set_flags(set(r2.m, ins.register, r2.value), ins.register)

\* Instructions::LoadRegister
ExecLoadRegister(ins, m) ==
    LET address == overflowing_add(get(m, ins.base), ins.offset)
        r == Memory_read(m, address)
    IN  set_flags(set(r.m, ins.register, r.value), ins.register)

\* Instructions::LoadEffectiveAddress
ExecLoadEffectiveAddress(ins, m) ==
    LET result == overflowing_add(get(m, ProgramCounter), ins.pc_offset)
    IN  set_flags(set(m, ins.register, result), ins.register)

\* Instructions::Store
ExecStore(ins, m) ==
    LET address == overflowing_add(get(m, ProgramCounter), ins.pc_offset)
    IN  Memory_write(m, address, get(m, ins.register))

\* the indirect store without the read of the pointer: the word at PC + offset
\* is written
ExecStoreIndirect_direct(ins, m) ==
    LET address == overflowing_add(get(m, ProgramCounter), ins.pc_offset)
    IN  Memory_write(m, address, get(m, ins.register))

\* Instructions::StoreIndirect
ExecStoreIndirect(ins, m) ==
    LET address == overflowing_add(get(m, ProgramCounter), ins.pc_offset)
        r == Memory_read(m, address)
    IN  Memory_write(r.m, r.value, get(r.m, ins.register))

\* Instructions::StoreRegister: source1 (bits 11..9) is stored at source2 + offset
ExecStoreRegister(ins, m) ==
    LET address == overflowing_add(get(m, ins.base), ins.offset)
    IN  Memory_write(m, address, get(m, ins.register))

\* TrapRoutine::GETC: read_exact of one byte, its error returned with ?
TrapGETC(m) ==
    IF Len(m.input) = 0 THEN Fail([m EXCEPT !.touched = TRUE], IoError)
    ELSE set([m EXCEPT !.input = Tail(m.input), !.touched = TRUE], R0, m.input[1])

\* TrapRoutine::OUT
TrapOUT(m) == write_char(m, as_u8(get(m, R0)))

RECURSIVE puts_loop(_, _, _)
RECURSIVE puts_body(_, _, _)
\* the while loops of TrapRoutine::PUTS (packed = FALSE) and TrapRoutine::PUTSP
\* (packed = TRUE), from the read of the word at address on
puts_loop(m, address, packed) == puts_body(Memory_read(m, address), address, packed)

\* the loop's condition and body, r being the read of the word at address
puts_body(r, address, packed) ==
    LET byte == r.value
        m1 == IF packed
              THEN write_char(write_char(r.m, as_u8(BitAnd(byte, 255))),
                              as_u8(Shr(byte, 8)))
              ELSE write_char(r.m, as_u8(byte))
        next == plain_add(m1, address, 1)
    IN  IF r.m.result # "Ok" THEN r.m
        ELSE IF byte = 0 THEN r.m
        ELSE IF next.m.result # "Ok" THEN next.m
        ELSE puts_loop(next.m, next.value, packed)

\* TrapRoutine::PUTS
TrapPUTS(m) == flush(puts_loop(m, get(m, R0), FALSE))

\* the routine with a second byte taken from the input after the one stored
TrapIN_two_bytes(m) ==
    LET m1 == flush(m)
    IN  IF Len(m1.input) = 0 THEN Panic([m1 EXCEPT !.touched = TRUE])
        ELSE set([m1 EXCEPT !.input = SubSeq(m1.input, 3, Len(m1.input)),
                            !.touched = TRUE],
                 R0, m1.input[1])

\* TrapRoutine::IN: flush, then input.bytes().next() ... unwrap()
TrapIN(m) ==
    LET m1 == flush(m)
    IN  IF Len(m1.input) = 0 THEN Panic([m1 EXCEPT !.touched = TRUE])
        ELSE set([m1 EXCEPT !.input = Tail(m1.input), !.touched = TRUE],
                 R0, m1.input[1])

\* TrapRoutine::PUTSP
TrapPUTSP(m) == flush(puts_loop(m, get(m, R0), TRUE))

\* TrapRoutine::HALT: flush, then process::exit(1)
TrapHALT(m) ==
    LET m1 == flush(m)
    IN  IF m1.result # "Ok" THEN m1 ELSE [m1 EXCEPT !.result = "Exit"]

\* Instructions::Trap
ExecTrap(ins, m) ==
    CASE ins.routine = "GETC" -> TrapGETC(m)
      [] ins.routine = "OUT" -> TrapOUT(m)
      [] ins.routine = "PUTS" -> TrapPUTS(m)
      [] ins.routine = "IN" -> TrapIN(m)
      [] ins.routine = "PUTSP" -> TrapPUTSP(m)
      [] ins.routine = "HALT" -> TrapHALT(m)

\* Instructions::execute: the machine after the instruction; its result is "Ok"
\* when execute returns Ok(())
Instructions_execute(ins, m) ==
    CASE m.result # "Ok" -> m
      [] ins.op \in {"Add", "And"} -> ExecArith(ins, m)
      [] ins.op = "LoadIndirect" -> ExecLoadIndirect(ins, m)
      [] ins.op \in {"RES", "RTI"} -> Panic(m)
      [] ins.op = "Not" -> ExecNot(ins, m)
      [] ins.op = "Branch" -> ExecBranch(ins, m)
      [] ins.op = "Jump" -> ExecJump(ins, m)
      [] ins.op = "JumpRegister" -> ExecJumpRegister(ins, m)
      [] ins.op = "Load" -> ExecLoad(ins, m)
      [] ins.op = "LoadRegister" -> ExecLoadRegister(ins, m)
      [] ins.op = "LoadEffectiveAddress" -> ExecLoadEffectiveAddress(ins, m)
      [] ins.op = "Store" -> ExecStore(ins, m)
      [] ins.op = "StoreIndirect" -> ExecStoreIndirect(ins, m)
      [] ins.op = "StoreRegister" -> ExecStoreRegister(ins, m)
      [] ins.op = "Trap" -> ExecTrap(ins, m)

\* ---------------------------------------------------------------- loader

RECURSIVE load_loop(_, _, _)
\* the loop of LittleComputer3::load_program: source holds the bytes not yet read
load_loop(m, source, address) ==
    IF Len(source) < 2
    THEN m      \* read_exact fails with UnexpectedEof, one byte left or none: break
    ELSE LET m1 == Memory_write(m, address, from_be_bytes(source[1], source[2]))
             next == plain_add(m1, address, 1)
         IN  IF next.m.result # "Ok" THEN next.m
             ELSE load_loop(next.m, SubSeq(source, 3, Len(source)), next.value)

\* the load with the program counter set to the origin of the image
load_program_at_origin(m, source) ==
    IF Len(source) < 2
    THEN Fail(m, IoError)
    ELSE load_loop(set(m, ProgramCounter, from_be_bytes(source[1], source[2])),
                   SubSeq(source, 3, Len(source)),
                   from_be_bytes(source[1], source[2]))

\* LittleComputer3::load_program: result "Ok" when it returns Ok(())
load_program(m, source) ==
    IF Len(source) < 2
    THEN Fail(m, IoError)    \* the first read_exact fails, returned with ?
    ELSE load_loop(m, SubSeq(source, 3, Len(source)),
                   from_be_bytes(source[1], source[2]))

\* -------------------------------------------------------------- run loop

\* what an instruction is executed as: its variant, or its routine for a trap
Kind(ins) == IF ins.op = "Trap" THEN ins.routine ELSE ins.op

NoTrace ==
    [pc |-> 0, fetched |-> FALSE, word |-> 0, decoded |-> FALSE,
     ins |-> [op |-> "none"], executed |-> "none"]

\* the program counter set to the sum pc
cycle_advanced(pc) == set(pc.m, ProgramCounter, pc.value)

\* the loop body after the decode: d is the conversion of the word fetched,
\* m1 the machine with the program counter moved past it
cycle_decoded(address, f, d, m1) ==
    IF ~d.ok
    THEN [Fail(f.m, [kind |-> d.kind, value |-> d.value])
            EXCEPT !.trace = [NoTrace EXCEPT !.pc = address, !.fetched = TRUE,
                                             !.word = f.value]]
    ELSE [Instructions_execute(d.ins, m1)
            EXCEPT !.trace = [pc |-> address, fetched |-> TRUE, word |-> f.value,
                              decoded |-> TRUE, ins |-> d.ins,
                              executed |-> IF m1.result = "Ok"
                                           THEN Kind(d.ins) ELSE "none"]]

\* the loop body after the fetch: f is the read of the word at address
cycle_fetched(address, f) ==
    IF f.m.result # "Ok"
    THEN [f.m EXCEPT !.trace = [NoTrace EXCEPT !.pc = address]]
    ELSE cycle_decoded(address, f, TryIntoInstructions(f.value),
                       cycle_advanced(plain_add(f.m, get(f.m, ProgramCounter), 1)))

\* the body of the loop with a decode error skipped: the program counter moves
\* past the word and the loop goes on
run_cycle_skipping(m) ==
    LET address == get(m, ProgramCounter)
        f == Memory_read(m, address)
        d == TryIntoInstructions(f.value)
        pc == plain_add(f.m, get(f.m, ProgramCounter), 1)
        m1 == set(pc.m, ProgramCounter, pc.value)
    IN  IF f.m.result # "Ok"
        THEN [f.m EXCEPT !.trace = [NoTrace EXCEPT !.pc = address]]
        ELSE IF ~d.ok
        THEN [m1 EXCEPT !.trace = [NoTrace EXCEPT !.pc = address, !.fetched = TRUE,
                                                  !.word = f.value]]
        ELSE [Instructions_execute(d.ins, m1)
                EXCEPT !.trace = [pc |-> address, fetched |-> TRUE, word |-> f.value,
                                  decoded |-> TRUE, ins |-> d.ins,
                                  executed |-> IF m1.result = "Ok"
                                               THEN Kind(d.ins) ELSE "none"]]

\* the body of the loop with the program counter advanced after execute
run_cycle_late_increment(m) ==
    LET address == get(m, ProgramCounter)
        f == Memory_read(m, address)
        d == TryIntoInstructions(f.value)
        e == Instructions_execute(d.ins, f.m)
        pc == plain_add(e, get(e, ProgramCounter), 1)
        m1 == set(pc.m, ProgramCounter, pc.value)
    IN  IF f.m.result # "Ok"
        THEN [f.m EXCEPT !.trace = [NoTrace EXCEPT !.pc = address]]
        ELSE IF ~d.ok
        THEN [Fail(f.m, [kind |-> d.kind, value |-> d.value])
                EXCEPT !.trace = [NoTrace EXCEPT !.pc = address, !.fetched = TRUE,
                                                 !.word = f.value]]
        ELSE [m1 EXCEPT !.trace = [pc |-> address, fetched |-> TRUE, word |-> f.value,
                                   decoded |-> TRUE, ins |-> d.ins,
                                   executed |-> Kind(d.ins)]]

\* the body of the while loop of LittleComputer3::execute_program: fetch,
\* decode (try_into()?), advance the program counter, execute (?)
run_cycle(m) ==
    cycle_fetched(get(m, ProgramCounter), Memory_read(m, get(m, ProgramCounter)))

\* Memory::read as an operation: the trace keeps the address and the value read
read_op(m, address) ==
    LET r == Memory_read(m, address)
    IN  [r.m EXCEPT !.trace = [NoTrace EXCEPT !.pc = address,
                                              !.fetched = (r.m.result = "Ok"),
                                              !.word = r.value]]

\* Instructions::read(value) and, on the instruction it returns, execute: the
\* trace keeps the program counter at the call, the word and the instruction
execute_op(m, value) ==
    LET d == Instructions_read(value)
    IN  [Instructions_execute(d.ins, m)
            EXCEPT !.trace = [pc |-> get(m, ProgramCounter), fetched |-> FALSE,
                              word |-> value, decoded |-> TRUE, ins |-> d.ins,
                              executed |-> Kind(d.ins)]]

\* ----------------------------------------------------------------- state

VARIABLES
    registers,        \* LittleComputer3.registers
    memory,           \* LittleComputer3.memory
    input,            \* the bytes the input stream still holds, once it is read
    inputKnown,       \* whether the input stream has been read from
    output,           \* the bytes written to the output stream
    flushed,          \* how many output bytes have been flushed
    overflow_checks,  \* "on" / "off" once an overflow has shown which build runs
    status,           \* where the machine's caller is
    error,            \* the Error a failed call returned
    polls,            \* the keyboard polls made so far
    pollBytes,        \* the input bytes those polls consumed
    cycles,           \* the run loop's iterations so far
    last              \* the last operation, with the state it started from

vars == << registers, memory, input, inputKnown, output, flushed, overflow_checks,
           status, error, polls, pollBytes, cycles, last >>

\* ---------------------------------------------------------------- bounds

\* the longest input stream
MaxInput == 3
\* the longest program, in words after the origin
MaxProgWords == 2
\* the run loop's iterations that are followed
MaxCycles == 3
\* the longest image body the loader is given, in bytes after the origin
MaxImageBytes == 4

\* the sequences over S of length at most n
SeqsUpTo(S, n) == UNION { [1 .. k -> S] : k \in 0 .. n }

\* the bytes the input stream may hold
InputBytes == {0, 65}
Inputs == SeqsUpTo(InputBytes, MaxInput)

\* the two bytes of a word, big-endian
be_bytes(word) == << word \div 256, word % 256 >>

RECURSIVE image_bytes(_)
\* the image body that holds the words
image_bytes(words) ==
    IF words = << >> THEN << >>
    ELSE be_bytes(Head(words)) \o image_bytes(Tail(words))

\* the words programs are made of: one or more of each instruction, a word that
\* does not decode, and the keyboard status address as a datum
ProgWords ==
    { 1025,     \* 0x0401 BRz  #1
      4094,     \* 0x0FFE BRnzp #-2
      4129,     \* 0x1021 ADD R0, R0, #1
      4159,     \* 0x103F ADD R0, R0, #-1
      4672,     \* 0x1240 ADD R1, R1, R0
      8703,     \* 0x21FF LD  R0, #-1
      12289,    \* 0x3001 ST  R0, #1
      18433,    \* 0x4801 JSR #1
      16384,    \* 0x4000 JSRR R0
      20512,    \* 0x5020 AND R0, R0, #0
      24576,    \* 0x6000 LDR R0, R0, #0
      28672,    \* 0x7000 STR R0, R0, #0
      32768,    \* 0x8000 RTI
      36927,    \* 0x903F NOT R0, R0
      40960,    \* 0xA000 LDI R0, #0
      41471,    \* 0xA1FF LDI R0, #-1
      45056,    \* 0xB000 STI R0, #0
      49152,    \* 0xC000 JMP R0
      53248,    \* 0xD000 reserved
      57855,    \* 0xE1FF LEA R0, #-1
      61472,    \* 0xF020 GETC
      61473,    \* 0xF021 OUT
      61474,    \* 0xF022 PUTS
      61475,    \* 0xF023 IN
      61476,    \* 0xF024 PUTSP
      61477,    \* 0xF025 HALT
      61478,    \* 0xF026 no trap routine
      65024 }   \* 0xFE00 the keyboard status address

\* longer programs: a jump to the keyboard status address (LD R0, #1; JMP R0;
\* 0xFE00), whose next fetch polls the keyboard
LongPrograms == { << 8193, 49152, 65024 >> }

\* the images main loads: origin PROGRAM_START, then the program's words
ProgramImages ==
    { be_bytes(PROGRAM_START) \o image_bytes(ws) :
        ws \in SeqsUpTo(ProgWords, MaxProgWords) \cup LongPrograms }

\* the images the loader is given: any origin of LoaderOrigins and any body over
\* ImageBytes, and the streams too short to hold an origin
ImageBytes == {0, 18}
LoaderOrigins == {PROGRAM_START, U16_MAX - 1}
LoaderImages ==
    { << >>, << 48 >> } \cup
    { be_bytes(o) \o body : o \in LoaderOrigins, body \in SeqsUpTo(ImageBytes, MaxImageBytes) }

\* the addresses and values the memory is called with directly
MemAddrs == {0, Kbsr, Kbdr, U16_MAX - 1, U16_MAX}
MemValues == {0, 7}

\* --------------------------------------------------------------- actions

\* the machine and its streams, as the record the operations work on: src is
\* what the input stream holds, c whether the build checks overflow
Machine(src, c) ==
    [regs |-> registers, mem |-> memory, input |-> src, touched |-> FALSE,
     output |-> output, flushed |-> flushed, polls |-> polls,
     pollBytes |-> pollBytes, checks |-> c, oflow |-> FALSE, result |-> "Ok",
     error |-> NoError, trace |-> NoTrace]

\* the state an operation starts from, kept in last
Snapshot(src) ==
    [regs |-> registers, mem |-> memory, input |-> src, output |-> output,
     flushed |-> flushed, polls |-> polls, pollBytes |-> pollBytes,
     status |-> status]

\* the operations on the machine: a call is a record of its name and arguments
LoadCall(source) == [name |-> "load", source |-> source, address |-> 0, value |-> 0]
CycleCall == [name |-> "cycle", source |-> << >>, address |-> 0, value |-> 0]
WriteCall(address, value) ==
    [name |-> "write", source |-> << >>, address |-> address, value |-> value]
ReadCall(address) ==
    [name |-> "read", source |-> << >>, address |-> address, value |-> 0]
ExecuteCall(value) ==
    [name |-> "execute", source |-> << >>, address |-> 0, value |-> value]

\* the machine after the call
Apply(call, m) ==
    CASE call.name = "load" -> load_program(m, call.source)
      [] call.name = "cycle" -> run_cycle(m)
      [] call.name = "write" -> Memory_write(m, call.address, call.value)
      [] call.name = "read" -> read_op(m, call.address)
      [] call.name = "execute" -> execute_op(m, call.value)

\* what the input stream may hold when the call runs: what is left of it once
\* it has been read from; before that any stream, if the call reads it at all
Sources(call) ==
    IF inputKnown THEN {input}
    ELSE IF Apply(call, Machine(<< >>, "off")).touched THEN Inputs
    ELSE {<< >>}

\* the builds a run of Op may be, wrapped being the run that wraps on overflow:
\* both, when a plain + overflows for the first time
ChecksFor(wrapped) ==
    IF overflow_checks # "unknown" THEN {overflow_checks}
    ELSE IF wrapped.oflow THEN {"on", "off"}
    ELSE {"off"}

\* the outcomes of the call on the input src, wrapped being the run that wraps
OutcomesOn(call, src, wrapped) ==
    { [src |-> src,
       m |-> IF c = "off" THEN wrapped ELSE Apply(call, Machine(src, c))] :
        c \in ChecksFor(wrapped) }

\* the outcomes of the call in the current state, with the input each had
Outcomes(call) ==
    UNION { OutcomesOn(call, src, Apply(call, Machine(src, "off"))) :
            src \in Sources(call) }

\* the machine and the streams become those of the outcome
Commit(o) ==
    /\ registers' = o.m.regs
    /\ memory' = o.m.mem
    /\ inputKnown' = (inputKnown \/ o.m.touched)
    /\ input' = IF inputKnown \/ o.m.touched THEN o.m.input ELSE << >>
    /\ output' = o.m.output
    /\ flushed' = o.m.flushed
    /\ polls' = o.m.polls
    /\ pollBytes' = o.m.pollBytes
    /\ overflow_checks' = IF o.m.oflow THEN o.m.checks ELSE overflow_checks
    /\ error' = IF o.m.result = "Err" THEN o.m.error ELSE error

\* Default for LittleComputer3 (derived): the machine main creates
Init ==
    /\ registers = Registers_default
    /\ memory = Memory_default
    /\ input = << >>
    /\ inputKnown = FALSE
    /\ output = << >>
    /\ flushed = 0
    /\ overflow_checks = "unknown"
    /\ status = "Created"
    /\ error = NoError
    /\ polls = 0
    /\ pollBytes = 0
    /\ cycles = 0
    /\ last = [op |-> "none", source |-> << >>, trace |-> NoTrace,
               pre |-> Snapshot(<< >>)]

\* a call of load_program with the stream source
Load(source) ==
    \E o \in Outcomes(LoadCall(source)) :
        /\ Commit(o)
        /\ status' = CASE o.m.result = "Ok" -> "Loaded"
                       [] o.m.result = "Err" -> "LoadFailed"
                       [] o.m.result = "Panic" -> "Panicked"
        /\ cycles' = cycles
        /\ last' = [op |-> "load", source |-> source, trace |-> NoTrace,
                    pre |-> Snapshot(o.src)]

\* main: lc3.load_program(file)
LoadProgram ==
    /\ status = "Created"
    /\ \E source \in ProgramImages : Load(source)

\* execute_program is running, or about to: main calls it after a successful load
InRunLoop == status \in {"Loaded", "Running"}

\* the while condition of execute_program is false: Ok(()) is returned
RunLoopExit ==
    /\ InRunLoop
    /\ ~(registers[ProgramCounter] < U16_MAX)
    /\ status' = "Returned"
    /\ last' = [op |-> "exit", source |-> << >>, trace |-> NoTrace,
                pre |-> Snapshot(input)]
    /\ UNCHANGED << registers, memory, input, inputKnown, output, flushed,
                    overflow_checks, error, polls, pollBytes, cycles >>

\* the status the run loop is left in by an iteration's result
StatusOf(result) ==
    CASE result = "Ok" -> "Running"
      [] result = "Err" -> "Failed"
      [] result = "Panic" -> "Panicked"
      [] result = "Exit" -> "Exited"

\* an iteration of the run loop whatever the program counter: no while condition
Cycle_unbounded ==
    /\ InRunLoop
    /\ cycles < MaxCycles
    /\ \E o \in Outcomes(CycleCall) :
        /\ Commit(o)
        /\ status' = StatusOf(o.m.result)
        /\ cycles' = cycles + 1
        /\ last' = [op |-> "cycle", source |-> << >>, trace |-> o.m.trace,
                    pre |-> Snapshot(o.src)]

\* an iteration of the run loop: the while condition holds
Cycle ==
    /\ InRunLoop
    /\ registers[ProgramCounter] < U16_MAX
    /\ cycles < MaxCycles
    /\ \E o \in Outcomes(CycleCall) :
        /\ Commit(o)
        /\ status' = StatusOf(o.m.result)
        /\ cycles' = cycles + 1
        /\ last' = [op |-> "cycle", source |-> << >>, trace |-> o.m.trace,
                    pre |-> Snapshot(o.src)]

\* main: a machine is created, an image is loaded, the program is run
Next ==
    \/ LoadProgram
    \/ RunLoopExit
    \/ Cycle

Spec == Init /\ [][Next]_vars

\* any number of calls of load_program on one machine
LoadAgain ==
    /\ status \in {"Created", "Loaded"}
    /\ \E source \in LoaderImages : Load(source)

SpecLoad == Init /\ [][LoadAgain]_vars

\* a call of Memory::write(address, value)
MemWrite ==
    /\ status = "Created"
    /\ \E address \in MemAddrs, value \in MemValues :
        \E o \in Outcomes(WriteCall(address, value)) :
            /\ Commit(o)
            /\ status' = IF o.m.result = "Panic" THEN "Panicked" ELSE status
            /\ cycles' = cycles
            /\ last' = [op |-> "write", source |-> << >>,
                        trace |-> [NoTrace EXCEPT !.pc = address, !.word = value],
                        pre |-> Snapshot(o.src)]

\* a call of Memory::read(address, input)
MemRead ==
    /\ status = "Created"
    /\ \E address \in MemAddrs :
        \E o \in Outcomes(ReadCall(address)) :
            /\ Commit(o)
            /\ status' = IF o.m.result = "Panic" THEN "Panicked" ELSE status
            /\ cycles' = cycles
            /\ last' = [op |-> "read", source |-> << >>, trace |-> o.m.trace,
                        pre |-> Snapshot(o.src)]

\* the memory of a new machine, called directly
SpecMem == Init /\ [][MemWrite \/ MemRead]_vars

\* a new machine whose caller is about to make the call op with the arguments
\* args, or has made it when trace tells what it did
Created(regs, mem, op, args, trace) ==
    /\ registers = regs
    /\ memory = mem
    /\ input = << >>
    /\ inputKnown = FALSE
    /\ output = << >>
    /\ flushed = 0
    /\ overflow_checks = "unknown"
    /\ status = "Created"
    /\ error = NoError
    /\ polls = 0
    /\ pollBytes = 0
    /\ cycles = 0
    /\ last = [op |-> op, source |-> args, trace |-> trace, pre |-> Snapshot(<< >>)]

\* the words given to the codec: all of them
CodecWords == 0 .. U16_MAX

\* a word is about to be decoded
InitCodec ==
    \E value \in CodecWords :
        Created(Registers_default, Memory_default, "to_decode", << value >>, NoTrace)

\* Instructions::read(value): the trace keeps the word and what it decoded to,
\* error the Err returned
Decode ==
    /\ last.op = "to_decode"
    /\ LET value == last.source[1]
           d == Instructions_read(value)
       IN  /\ last' = [last EXCEPT
                         !.op = "decode",
                         !.trace = [NoTrace EXCEPT
                                      !.word = value,
                                      !.fetched = TRUE,
                                      !.decoded = d.ok,
                                      !.ins = IF d.ok THEN d.ins ELSE [op |-> "none"]]]
           /\ error' = IF d.ok THEN NoError ELSE [kind |-> d.kind, value |-> d.value]
    /\ UNCHANGED << registers, memory, input, inputKnown, output, flushed,
                    overflow_checks, status, polls, pollBytes, cycles >>

\* the codec, called on any word
SpecCodec == InitCodec /\ [][Decode]_vars

\* the registers update_flags is called on, and the values they hold: all
FlagRegisters == {R0, R7}
FlagValues == 0 .. U16_MAX

\* update_flags is about to be called on a register holding any value
InitFlags ==
    \E register \in FlagRegisters, value \in FlagValues :
        Created([Registers_default EXCEPT ![register] = value], Memory_default,
                "to_update_flags", << register >>, NoTrace)

\* Registers::update_flags(register)
UpdateFlags ==
    /\ last.op = "to_update_flags"
    /\ registers' = update_flags(registers, last.source[1])
    /\ last' = [last EXCEPT !.op = "update_flags"]
    /\ UNCHANGED << memory, input, inputKnown, output, flushed, overflow_checks,
                    status, error, polls, pollBytes, cycles >>

\* the register file, update_flags called on it
SpecFlags == InitFlags /\ [][UpdateFlags]_vars

\* the widths of the fields the codec extends, and the fields of a width
FieldWidths == {5, 6, 9, 11}
Fields(bit_count) == 0 .. (2 ^ bit_count) - 1

\* sign_extend is about to be called on any field of any of the widths
InitSignExtend ==
    \E bit_count \in FieldWidths :
        \E x \in Fields(bit_count) :
            Created(Registers_default, Memory_default,
                    "to_sign_extend", << x, bit_count >>, NoTrace)

\* sign_extend(x, bit_count): the trace keeps the word returned
SignExtend ==
    /\ last.op = "to_sign_extend"
    /\ last' = [last EXCEPT
                  !.op = "sign_extend",
                  !.trace = [NoTrace EXCEPT
                               !.word = sign_extend(last.source[1], last.source[2])]]
    /\ UNCHANGED << registers, memory, input, inputKnown, output, flushed,
                    overflow_checks, status, error, polls, pollBytes, cycles >>

\* sign_extend, called on any field
SpecSignExtend == InitSignExtend /\ [][SignExtend]_vars

\* the register files execute is called on: R0 and R1 hold any of ExecValues,
\* R7 a return address or none, the program counter the start of a program or
\* the top address, Condition no flag (as at creation) or one
ExecValues == {0, 1, 32767, 32768, 65535}
ExecLinks == {0, 5}
ExecCounters == {PROGRAM_START, U16_MAX}
ExecFlags == {0, Positive, Zero, Negative}
ExecRegisters ==
    { [Registers_default EXCEPT ![R0] = a, ![R1] = b, ![R7] = c,
                                ![ProgramCounter] = pc, ![Condition] = f] :
        a \in ExecValues, b \in ExecValues, c \in ExecLinks,
        pc \in ExecCounters, f \in ExecFlags }

\* the memories execute is called on: the empty one, and one with words around
\* the addresses the instructions of ExecWords reach, among them pointers (one
\* to the keyboard status register) and strings (one with a byte above 0x7F)
ExecMemories ==
    { Memory_default,
      (0 :> 2) @@ (1 :> 33001) @@ (2 :> 23) @@ (32768 :> 19798)
        @@ (12287 :> 65024) @@ (12289 :> 2) @@ (65534 :> 12289) }

\* the instructions executed, as the words they are decoded from
ExecWords ==
    { 5121,     \* 0x1401 ADD R2, R0, R1
      4129,     \* 0x1021 ADD R0, R0, #1
      4735,     \* 0x127F ADD R1, R1, #-1
      4096,     \* 0x1000 ADD R0, R0, R0
      21505,    \* 0x5401 AND R2, R0, R1
      20512,    \* 0x5020 AND R0, R0, #0
      21055,    \* 0x523F AND R1, R0, #-1
      37951,    \* 0x943F NOT R2, R0
      36927,    \* 0x903F NOT R0, R0
      1,        \* 0x0001 BR (no flag) #1
      522,      \* 0x020A BRp #10
      1535,     \* 0x05FF BRz #-1
      2049,     \* 0x0801 BRn #1
      3077,     \* 0x0C05 BRnz #5
      4094,     \* 0x0FFE BRnzp #-2
      18437,    \* 0x4805 JSR #5
      20479,    \* 0x4FFF JSR #-1
      16384,    \* 0x4000 JSRR R0
      16448,    \* 0x4040 JSRR R1
      16832,    \* 0x41C0 JSRR R7
      9217,     \* 0x2401 LD R2, #1
      8703,     \* 0x21FF LD R0, #-1
      41985,    \* 0xA401 LDI R2, #1
      41471,    \* 0xA1FF LDI R0, #-1
      25665,    \* 0x6441 LDR R2, R1, #1
      24639,    \* 0x603F LDR R0, R0, #-1
      58369,    \* 0xE401 LEA R2, #1
      57855,    \* 0xE1FF LEA R0, #-1
      12289,    \* 0x3001 ST R0, #1
      45057,    \* 0xB001 STI R0, #1
      28737,    \* 0x7041 STR R0, R1, #1
      49152,    \* 0xC000 JMP R0
      49600,    \* 0xC1C0 JMP R7
      32768,    \* 0x8000 RTI
      53248,    \* 0xD000 reserved
      61472,    \* 0xF020 GETC
      61473,    \* 0xF021 OUT
      61474,    \* 0xF022 PUTS
      61475,    \* 0xF023 IN
      61476,    \* 0xF024 PUTSP
      61477 }   \* 0xF025 HALT

\* registers and memory are set up for a call of execute
InitExec ==
    \E regs \in ExecRegisters, mem \in ExecMemories :
        Created(regs, mem, "none", << >>, NoTrace)

\* instruction.execute(registers, memory, input, output), the instruction
\* decoded from a word
Execute ==
    /\ status = "Created"
    /\ \E value \in ExecWords :
        \E o \in Outcomes(ExecuteCall(value)) :
            /\ Commit(o)
            /\ status' = IF o.m.result = "Ok" THEN "Executed" ELSE StatusOf(o.m.result)
            /\ cycles' = cycles
            /\ last' = [op |-> "execute", source |-> << >>, trace |-> o.m.trace,
                        pre |-> Snapshot(o.src)]

\* the executor, called on its own on any instruction
SpecExec == InitExec /\ [][Execute]_vars

\* ------------------------------------------------------------ properties

\* C1: in every reachable machine state the Condition register holds exactly
\* one of the flags Negative, Zero, Positive
C1_ExactlyOneFlag == registers[Condition] \in {Negative, Zero, Positive}

\* C2: when the run loop executes a HALT trap, the output is flushed and
\* execute_program returns Ok to its caller: the halt does not end the process
C2_HaltReturnsOk ==
    (last.op = "cycle" /\ last.trace.executed = "HALT")
        => (status = "Returned" /\ flushed = Len(output))

\* the bytes of a loaded image after its two origin bytes
BodyLen(source) == Len(source) - 2

\* C3: load_program returns an error for every image whose body, the bytes
\* after the two origin bytes, has odd length
C3_OddImageIsError ==
    (last.op = "load" /\ Len(last.source) >= 2 /\ BodyLen(last.source) % 2 = 1)
        => status = "LoadFailed"

\* C4: for every address in 0 .. 0xFFFF a write succeeds and stores the value,
\* and a read succeeds and, but for 0xFE00, returns the stored value
C4_FullAddressSpace ==
    /\ last.op = "write" =>
         (status # "Panicked" /\ Peek(memory, last.trace.pc) = last.trace.word)
    /\ last.op = "read" =>
         /\ status # "Panicked"
         /\ last.trace.pc # Kbsr =>
              last.trace.word = Peek(last.pre.mem, last.trace.pc)

\* the instructions that compute an effective address from the program counter
PcRelativeKinds ==
    {"Load", "LoadIndirect", "LoadEffectiveAddress", "Store", "StoreIndirect",
     "Branch"}

\* the base and the offset of the effective address the traced instruction
\* computes, from the state pre it was fetched in
EaBase(t, pre) ==
    IF t.executed \in {"LoadRegister", "StoreRegister"}
    THEN pre.regs[t.ins.base]
    ELSE t.pc + 1
EaOffset(t) ==
    IF t.executed \in {"LoadRegister", "StoreRegister"}
    THEN t.ins.offset
    ELSE t.ins.pc_offset

\* the traced instruction computes an effective address
ComputesEa(t) ==
    \/ t.executed \in PcRelativeKinds
    \/ t.executed \in {"LoadRegister", "StoreRegister"}
    \/ t.executed = "JumpRegister" /\ t.ins.jump_type = "Long"

\* an address whose read or write has no effect of its own: inside the array,
\* and not the keyboard status register
Plain(address) == address < MEMORY_LEN /\ address # Kbsr

\* the addresses the traced instruction reads or writes, for the effective
\* address ea
Touched(t, pre, ea) ==
    CASE t.executed \in {"Load", "LoadRegister", "Store", "StoreRegister"} -> {ea}
      [] t.executed \in {"LoadIndirect", "StoreIndirect"} ->
            {ea} \cup (IF Plain(ea) THEN {Peek(pre.mem, ea)} ELSE {})
      [] OTHER -> {}

\* C5: an effective-address computation whose unsigned sum exceeds 0xFFFF
\* wraps and does not fault: the instruction completes whenever the words it
\* then reads or writes are plain memory
C5_AddressWrapsNeverFaults ==
    (/\ last.op = "cycle"
     /\ ComputesEa(last.trace)
     /\ EaBase(last.trace, last.pre) + EaOffset(last.trace) > U16_MAX
     /\ \A a \in Touched(last.trace, last.pre,
                         (EaBase(last.trace, last.pre) + EaOffset(last.trace))
                             % U16_MOD) : Plain(a))
        => status = "Running"

\* the last iteration read the input stream when it had ended
InputEndedInRead ==
    /\ last.op = "cycle"
    /\ inputKnown
    /\ last.pre.input = << >>
    /\ \/ last.trace.executed \in {"GETC", "IN"}
       \/ polls > last.pre.polls

\* C6: when the input stream ends during a required read (GETC, IN, a keyboard
\* poll) the run loop returns an IoError: the machine does not crash
C6_EndOfInputIsIoError ==
    InputEndedInRead => (status = "Failed" /\ error = IoError)

\* C7: a read of the keyboard status address consumes exactly one byte of the
\* input stream
C7_PollConsumesOneByte ==
    (/\ last.op = "cycle"
     /\ polls = last.pre.polls + 1
     /\ Len(last.pre.input) >= 2)
        => (Len(input) = Len(last.pre.input) - 1 /\ pollBytes = last.pre.pollBytes + 1)

\* C8: the run loop never calls execute on a decoded reserved or
\* return-from-interrupt instruction
C8_ReservedNeverExecuted ==
    ~(last.op = "cycle" /\ last.trace.executed \in {"RES", "RTI"})

\* the word at the program counter does not decode
DecodeWillFail ==
    /\ InRunLoop
    /\ registers[ProgramCounter] < U16_MAX
    /\ cycles < MaxCycles
    /\ Plain(registers[ProgramCounter])
    /\ ~TryIntoInstructions(Peek(memory, registers[ProgramCounter])).ok

\* the decode error of the word at the program counter
DecodeError ==
    LET d == TryIntoInstructions(Peek(memory, registers[ProgramCounter]))
    IN  [kind |-> d.kind, value |-> d.value]

\* C9: when the word fetched at the program counter does not decode,
\* execute_program returns that decode error at once: the program counter stays
\* on the word, nothing is executed, and nothing runs after the return
C9_DecodeErrorReturnsAtOnce ==
    [][ /\ DecodeWillFail =>
            /\ status' = "Failed"
            /\ error' = DecodeError
            /\ registers' = registers
            /\ memory' = memory
            /\ output' = output
            /\ last'.trace.executed = "none"
        /\ status = "Failed" => FALSE ]_vars

C9_Witness ==
    /\ status = "Failed"
    /\ error.kind = "UnknownTrapRoutine"
    /\ last.trace.fetched
    /\ cycles >= 2

\* the number of whole words in the body of an image
BodyWords(source) == BodyLen(source) \div 2

\* C10: after a successful load of an image of origin o and words w0 .. wn,
\* memory[o + i] = wi, each word big-endian from its two bytes in stream order,
\* and every other address holds what it held before
C10_LoadPlacesWords ==
    LET src == last.source
        o == src[1] * 256 + src[2]
        range == { o + i : i \in 0 .. BodyWords(src) - 1 }
    IN  (/\ last.op = "load"
         /\ status = "Loaded"
         /\ BodyLen(src) % 2 = 0
         /\ \A a \in range : a < U16_MAX)
            => /\ \A i \in 0 .. BodyWords(src) - 1 :
                    Peek(memory, o + i) = src[3 + 2 * i] * 256 + src[4 + 2 * i]
               /\ \A a \in (DOMAIN memory \cup DOMAIN last.pre.mem) \ range :
                    Peek(memory, a) = Peek(last.pre.mem, a)

C10_Witness ==
    /\ last.op = "load"
    /\ status = "Loaded"
    /\ Len(last.source) = 6
    /\ last.source[3] # last.source[4]
    /\ last.source[5] # last.source[6]
    /\ \E a \in DOMAIN last.pre.mem :
         a \notin { last.source[1] * 256 + last.source[2] + i : i \in 0 .. 1 }

\* a read of the keyboard status address that returned
PollReturned ==
    /\ last.op = "read"
    /\ last.trace.pc = Kbsr
    /\ last.trace.fetched

\* C11: after a read of 0xFE00, when the input signalled data (the byte polled
\* is not 0) the status register is 0x8000 and the data register holds the
\* byte; otherwise the status register is 0 and the data register is as it
\* was; the read returns the status the poll stored
C11_PollSetsRegisters ==
    PollReturned =>
        LET byte == last.pre.input[1]
        IN  /\ byte # 0 =>
                 /\ Peek(memory, Kbsr) = 32768
                 /\ Peek(memory, Kbdr) = byte
            /\ byte = 0 =>
                 /\ Peek(memory, Kbsr) = 0
                 /\ Peek(memory, Kbdr) = Peek(last.pre.mem, Kbdr)
            /\ last.trace.word = Peek(memory, Kbsr)

C11_Witness ==
    /\ PollReturned
    /\ last.pre.input[1] = 65
    /\ Peek(last.pre.mem, Kbdr) = 7
    /\ Peek(memory, Kbdr) = 65

\* the memory differs from the one before the last operation at most in the
\* words at the addresses of S
SameMemoryBut(S) ==
    \A a \in (DOMAIN memory \cup DOMAIN last.pre.mem) \ S :
        Peek(memory, a) = Peek(last.pre.mem, a)

\* C12: a read of an address other than 0xFE00 changes no memory word and
\* consumes no input; a write changes no word but the one at its address
C12_PlainStorage ==
    /\ (last.op = "read" /\ last.trace.pc # Kbsr) =>
          /\ SameMemoryBut({})
          /\ input = last.pre.input
          /\ polls = last.pre.polls
    /\ last.op = "write" =>
          /\ SameMemoryBut({last.trace.pc})
          /\ input = last.pre.input
          /\ polls = last.pre.polls

C12_Witness ==
    /\ last.op = "read"
    /\ last.trace.pc = Kbdr
    /\ last.trace.fetched
    /\ inputKnown
    /\ input # << >>
    /\ Peek(memory, 0) = 7
    /\ Peek(memory, Kbdr) = 65

\* the trap routines, in the order of their numbers from 0x20
TrapRoutineNames == << "GETC", "OUT", "PUTS", "IN", "PUTSP", "HALT" >>

\* C13: a word whose top four bits are 0xF decodes exactly when its low byte
\* is in 0x20 .. 0x25, to GETC, OUT, PUTS, IN, PUTSP, HALT in this order;
\* any other low byte fails with UnknownTrapRoutine of that low byte
C13_TrapDecode ==
    (last.op = "decode" /\ last.trace.word \div 4096 = 15) =>
        LET low == last.trace.word % 256
        IN  IF low \in 32 .. 37
            THEN /\ last.trace.decoded
                 /\ last.trace.ins = [op |-> "Trap", routine |-> TrapRoutineNames[low - 31]]
                 /\ error = NoError
            ELSE /\ ~last.trace.decoded
                 /\ error = [kind |-> "UnknownTrapRoutine", value |-> low]

C13_Witness ==
    /\ last.op = "decode"
    /\ last.trace.word = 61733
    /\ last.trace.decoded
    /\ last.trace.ins.routine = "HALT"

\* the flag of a value: Zero for 0, Negative when bit 15 is set, else Positive
FlagOf(v) == IF v = 0 THEN Zero ELSE IF v >= 32768 THEN Negative ELSE Positive

\* C14: update_flags sets Condition to the one flag of the value the named
\* register holds, and changes no other register
C14_UpdateFlags ==
    last.op = "update_flags" =>
        /\ registers[Condition] = FlagOf(last.pre.regs[last.source[1]])
        /\ \A r \in RegisterSlots \ {Condition} : registers[r] = last.pre.regs[r]

C14_Witness ==
    /\ last.op = "update_flags"
    /\ last.source = << R7 >>
    /\ last.pre.regs[R7] = 32768
    /\ registers[Condition] = Negative
    /\ registers[R7] = 32768

\* the 16-bit two's-complement encoding of the signed value of the n-bit field f
TwosComplement(f, n) ==
    IF f >= 2 ^ (n - 1) THEN (f - 2 ^ n) + U16_MOD ELSE f

\* C15: for the widths 5, 6, 9, 11 and every field f of the width,
\* sign_extend returns f with the bits from n up set when bit n-1 of f is 1,
\* and f when it is 0: the 16-bit two's complement of the field's signed value
C15_SignExtend ==
    last.op = "sign_extend" =>
        LET f == last.source[1]
            n == last.source[2]
        IN  /\ last.trace.word = TwosComplement(f, n)
            /\ last.trace.word \in 0 .. U16_MAX
            /\ last.trace.word % (2 ^ n) = f

C15_Witness ==
    /\ last.op = "sign_extend"
    /\ last.source = << 1024, 11 >>
    /\ last.trace.word = 64512

\* the width bits of the word w from bit low up
Field(w, low, width) == (w \div (2 ^ low)) % (2 ^ width)

\* the variant of each opcode, from opcode 0
VariantOf ==
    << "Branch", "Add", "Load", "Store", "JumpRegister", "And", "LoadRegister",
       "StoreRegister", "RTI", "Not", "LoadIndirect", "StoreIndirect", "Jump",
       "RES", "LoadEffectiveAddress", "Trap" >>

\* the operands of the decoded instruction ins are the bit fields of the word w
OperandsFrom(ins, w) ==
    CASE ins.op \in {"Add", "And"} ->
            /\ ins.destination = Field(w, 9, 3)
            /\ ins.source1 = Field(w, 6, 3)
            /\ ins.mode = (IF Field(w, 5, 1) = 1 THEN "Immediate" ELSE "Register")
            /\ ins.source2 = (IF Field(w, 5, 1) = 1
                              THEN TwosComplement(Field(w, 0, 5), 5)
                              ELSE Field(w, 0, 3))
      [] ins.op = "Not" ->
            /\ ins.destination = Field(w, 9, 3)
            /\ ins.source1 = Field(w, 6, 3)
      [] ins.op = "Branch" ->
            /\ ins.condition_flag = Field(w, 9, 3)
            /\ ins.pc_offset = TwosComplement(Field(w, 0, 9), 9)
      [] ins.op \in {"Load", "Store", "LoadIndirect", "StoreIndirect",
                     "LoadEffectiveAddress"} ->
            /\ ins.register = Field(w, 9, 3)
            /\ ins.pc_offset = TwosComplement(Field(w, 0, 9), 9)
      [] ins.op \in {"LoadRegister", "StoreRegister"} ->
            /\ ins.register = Field(w, 9, 3)
            /\ ins.base = Field(w, 6, 3)
            /\ ins.offset = TwosComplement(Field(w, 0, 6), 6)
      [] ins.op = "JumpRegister" ->
            /\ ins.jump_type = (IF Field(w, 11, 1) = 1 THEN "Long" ELSE "Register")
            /\ ins.jump_type = "Long" =>
                  ins.pc_offset = TwosComplement(Field(w, 0, 11), 11)
            /\ ins.jump_type = "Register" => ins.register = Field(w, 6, 3)
      [] ins.op = "Jump" -> ins.source = Field(w, 6, 3)
      [] OTHER -> TRUE

\* C16: decode picks the variant from bits 15..12 and the operands from the
\* word's fields: registers from bits 11..9, 8..6 and 2..0, the branch mask
\* from bits 11..9; ADD and AND are immediate exactly when bit 5 is 1, opcode 4
\* is the long form exactly when bit 11 is 1 and else takes bits 8..6
C16_DecodeFields ==
    last.op = "decode" =>
        LET w == last.trace.word
        IN  /\ Field(w, 12, 4) # 15 => last.trace.decoded
            /\ last.trace.decoded =>
                  /\ last.trace.ins.op = VariantOf[Field(w, 12, 4) + 1]
                  /\ OperandsFrom(last.trace.ins, w)

C16_Witness ==
    /\ last.op = "decode"
    /\ last.trace.word = 6783
    /\ last.trace.ins = [op |-> "Add", destination |-> 5, source1 |-> 1,
                         mode |-> "Immediate", source2 |-> 65535]

\* the bits set in the word v
BitsOf(v) == { i \in 0 .. 15 : (v \div (2 ^ i)) % 2 = 1 }

\* the second operand of the ADD or AND word w on the registers regs
Operand2(w, regs) ==
    IF Field(w, 5, 1) = 1
    THEN TwosComplement(Field(w, 0, 5), 5)
    ELSE regs[Field(w, 0, 3)]

\* C17: ADD leaves (source1 + operand2) mod 2^16 in the destination, AND the
\* bitwise AND of the two and NOT the complement of source1; each sets
\* Condition from the destination's new value, and none fails on overflow
C17_Arithmetic ==
    (last.op = "execute" /\ last.trace.executed \in {"Add", "And", "Not"}) =>
        LET w == last.trace.word
            pre == last.pre.regs
            a == pre[Field(w, 6, 3)]
            b == Operand2(w, pre)
            result == registers[Field(w, 9, 3)]
        IN  /\ status = "Executed"
            /\ last.trace.executed = "Add" => result = (a + b) % U16_MOD
            /\ last.trace.executed = "And" => BitsOf(result) = BitsOf(a) \cap BitsOf(b)
            /\ last.trace.executed = "Not" => BitsOf(result) = (0 .. 15) \ BitsOf(a)
            /\ result \in 0 .. U16_MAX
            /\ registers[Condition] = FlagOf(result)

C17_Witness ==
    /\ last.op = "execute"
    /\ last.trace.word = 4129
    /\ last.pre.regs[R0] = 65535
    /\ registers[R0] = 0
    /\ registers[Condition] = Zero
    /\ status = "Executed"

\* the registers of S are as they were before the last operation
SameRegisters(S) == \A r \in S : registers[r] = last.pre.regs[r]

\* C18: Branch adds its sign-extended offset to the program counter, modulo
\* 2^16, exactly when mask AND Condition is not 0, and else leaves it; Condition,
\* R0 .. R7 and the memory stay as they were
C18_Branch ==
    (last.op = "execute" /\ last.trace.executed = "Branch") =>
        LET w == last.trace.word
            pre == last.pre.regs
            taken == BitsOf(Field(w, 9, 3)) \cap BitsOf(pre[Condition]) # {}
            target == (pre[ProgramCounter] + TwosComplement(Field(w, 0, 9), 9)) % U16_MOD
        IN  /\ status = "Executed"
            /\ registers[ProgramCounter] = (IF taken THEN target ELSE pre[ProgramCounter])
            /\ SameRegisters((R0 .. R7) \cup {Condition})
            /\ memory = last.pre.mem

C18_Witness ==
    /\ last.op = "execute"
    /\ last.trace.word = 522
    /\ last.pre.regs[Condition] = Positive
    /\ last.pre.regs[ProgramCounter] = PROGRAM_START
    /\ registers[ProgramCounter] = PROGRAM_START + 10

LoadKinds == {"Load", "LoadIndirect", "LoadRegister", "LoadEffectiveAddress"}

\* the value the load word w leaves in its destination, from the registers pre
\* it started with and the memory
Loaded(w, kind, pre) ==
    LET pcRelative == (pre[ProgramCounter] + TwosComplement(Field(w, 0, 9), 9)) % U16_MOD
        baseRelative == (pre[Field(w, 6, 3)] + TwosComplement(Field(w, 0, 6), 6)) % U16_MOD
    IN  CASE kind = "Load" -> Peek(memory, pcRelative)
          [] kind = "LoadIndirect" -> Peek(memory, Peek(memory, pcRelative))
          [] kind = "LoadRegister" -> Peek(memory, baseRelative)
          [] kind = "LoadEffectiveAddress" -> pcRelative

\* C20: a load leaves in its destination memory[PC+off] (Load),
\* memory[memory[PC+off]] (Load-indirect), memory[source1+off] (Load-register) or
\* PC+off (Load-effective-address, which does not access the memory), sets
\* Condition from that value and leaves the program counter as it was
C20_LoadFamily ==
    (last.op = "execute" /\ last.trace.executed \in LoadKinds) =>
        LET w == last.trace.word
            value == Loaded(w, last.trace.executed, last.pre.regs)
        IN  /\ status = "Executed" =>
                  /\ registers[Field(w, 9, 3)] = value
                  /\ registers[Condition] = FlagOf(value)
                  /\ registers[ProgramCounter] = last.pre.regs[ProgramCounter]
                  /\ polls = last.pre.polls => memory = last.pre.mem
            /\ last.trace.executed = "LoadEffectiveAddress" =>
                  /\ status = "Executed"
                  /\ memory = last.pre.mem
                  /\ polls = last.pre.polls
                  /\ input = last.pre.input

C20_Witness ==
    /\ last.op = "execute"
    /\ last.trace.word = 41985
    /\ last.pre.regs[ProgramCounter] = PROGRAM_START
    /\ Peek(memory, PROGRAM_START + 1) = 2
    /\ registers[2] = 23
    /\ registers[Condition] = Positive

\* the instructions of the store family
StoreKinds == {"Store", "StoreIndirect", "StoreRegister"}

\* the address of the pointer the store word w reads, PC + offset
StorePointer(w, pre) ==
    (pre.regs[ProgramCounter] + TwosComplement(Field(w, 0, 9), 9)) % U16_MOD

\* the address the store word w writes, from the state pre it started in
StoreTarget(w, kind, pre) ==
    CASE kind = "Store" -> StorePointer(w, pre)
      [] kind = "StoreIndirect" -> Peek(pre.mem, StorePointer(w, pre))
      [] kind = "StoreRegister" ->
            (pre.regs[Field(w, 6, 3)] + TwosComplement(Field(w, 0, 6), 6)) % U16_MOD

RECURSIVE StringAt(_, _)
\* the words of the string at address in mem: those before the first zero word
StringAt(mem, address) ==
    IF address > U16_MAX \/ Peek(mem, address) = 0 THEN << >>
    ELSE << Peek(mem, address) >> \o StringAt(mem, address + 1)

\* the low byte of each word of the sequence
LowBytes(words) == [i \in 1 .. Len(words) |-> words[i] % 256]

\* C22: PUTS appends to the output the low bytes of the words from address R0
\* to the first zero word, one byte for each word in address order, and
\* flushes; it changes no register and no memory word
C22_Puts ==
    (last.op = "execute" /\ last.trace.executed = "PUTS" /\ status = "Executed") =>
        /\ output = last.pre.output \o LowBytes(StringAt(last.pre.mem, last.pre.regs[R0]))
        /\ flushed = Len(output)
        /\ SameRegisters(RegisterSlots)
        /\ memory = last.pre.mem

\* C23: OUT appends to the output one character, the single byte R0 mod 256,
\* for every value of R0, and changes no register and no memory word
C23_Out ==
    (last.op = "execute" /\ last.trace.executed = "OUT") =>
        /\ status = "Executed"
        /\ output = last.pre.output \o << last.pre.regs[R0] % 256 >>
        /\ SameRegisters(RegisterSlots)
        /\ memory = last.pre.mem

RECURSIVE PackedBytes(_)
\* the low byte, then the high byte, of each word of the sequence
PackedBytes(words) ==
    IF words = << >> THEN << >>
    ELSE << Head(words) % 256, Head(words) \div 256 >> \o PackedBytes(Tail(words))

\* C24: PUTSP appends to the output, for each word from address R0 to the
\* first zero word, the word's low byte and then its high byte, in address
\* order, and flushes
C24_Putsp ==
    (last.op = "execute" /\ last.trace.executed = "PUTSP" /\ status = "Executed") =>
        /\ output = last.pre.output \o PackedBytes(StringAt(last.pre.mem, last.pre.regs[R0]))
        /\ flushed = Len(output)

\* C25: GETC and IN each consume one byte of the input and leave it,
\* zero-extended, in R0; R1 .. R7, the program counter, Condition and the
\* memory stay as they were
C25_ReadCharacter ==
    (/\ last.op = "execute"
     /\ last.trace.executed \in {"GETC", "IN"}
     /\ last.pre.input # << >>) =>
        /\ status = "Executed"
        /\ input = Tail(last.pre.input)
        /\ registers[R0] = Head(last.pre.input)
        /\ registers[R0] < 256
        /\ SameRegisters(RegisterSlots \ {R0})
        /\ memory = last.pre.mem
        /\ polls = last.pre.polls

C25_Witness ==
    /\ last.op = "execute"
    /\ last.trace.executed = "IN"
    /\ last.pre.input = << 65, 0 >>
    /\ last.pre.regs[R0] = 65535
    /\ registers[R0] = 65
    /\ input = << 0 >>

\* C26: when the program counter is 0xFFFF at the start of a cycle the run
\* loop returns Ok at once, the machine as it is, and no cycle fetches the
\* word at 0xFFFF
C26_TopAddressEndsRun ==
    [][ /\ (InRunLoop /\ registers[ProgramCounter] = U16_MAX) =>
              /\ status' = "Returned"
              /\ last'.op = "exit"
              /\ UNCHANGED << registers, memory, input, output, error >>
        /\ last'.op = "cycle" => last'.trace.pc # U16_MAX ]_vars

C26_Witness ==
    /\ status = "Returned"
    /\ last.op = "exit"
    /\ last.pre.status = "Running"
    /\ registers[ProgramCounter] = U16_MAX
    /\ cycles = 2

\* C27: when the run loop starts, after the creation and any successful load,
\* R0 .. R7 and Condition are 0 and the program counter is 0x3000, whatever
\* the origin of the image; load_program changes no register
C27_RegistersAtStart ==
    /\ status \in {"Created", "Loaded"} =>
          /\ \A r \in (R0 .. R7) \cup {Condition} : registers[r] = 0
          /\ registers[ProgramCounter] = 12288
    /\ last.op = "load" => registers = last.pre.regs

C27_Witness ==
    /\ last.op = "load"
    /\ status = "Loaded"
    /\ Len(last.source) = 4
    /\ last.source[1] * 256 + last.source[2] = U16_MAX - 1
    /\ Peek(memory, U16_MAX - 1) = 18
    /\ registers[ProgramCounter] = 12288

\* the effective address of the word w fetched at address a: a + 1 + the
\* sign-extended low bits of w, modulo 2^16
FetchRelative(a, w, bits) == (a + 1 + TwosComplement(Field(w, 0, bits), bits)) % U16_MOD

\* C28: in a cycle the program counter is advanced by one after the fetch and
\* before execute: an instruction fetched at a takes its PC-relative address
\* as a + 1 + offset modulo 2^16, a jump-to-subroutine saves a + 1 in R7, and
\* an instruction that does not jump leaves the program counter at a + 1
C28_FetchThenAdvance ==
    (last.op = "cycle" /\ last.trace.executed # "none" /\ status = "Running") =>
        LET a == last.trace.pc
            w == last.trace.word
            kind == last.trace.executed
            pre == last.pre.regs
            ea == FetchRelative(a, w, 9)
            taken == BitsOf(Field(w, 9, 3)) \cap BitsOf(pre[Condition]) # {}
        IN  /\ kind = "LoadEffectiveAddress" => registers[Field(w, 9, 3)] = ea
            /\ (kind = "Load" /\ Plain(ea)) => registers[Field(w, 9, 3)] = Peek(memory, ea)
            /\ (kind = "LoadIndirect" /\ Plain(ea) /\ Plain(Peek(memory, ea))) =>
                  registers[Field(w, 9, 3)] = Peek(memory, Peek(memory, ea))
            /\ kind = "Store" => Peek(memory, ea) = pre[Field(w, 9, 3)]
            /\ (kind = "StoreIndirect" /\ Plain(ea)) =>
                  Peek(memory, Peek(last.pre.mem, ea)) = pre[Field(w, 9, 3)]
            /\ kind = "Branch" =>
                  registers[ProgramCounter] = (IF taken THEN ea ELSE a + 1)
            /\ kind = "JumpRegister" =>
                  /\ registers[R7] = a + 1
                  /\ Field(w, 11, 1) = 1 =>
                        registers[ProgramCounter] = FetchRelative(a, w, 11)
            /\ kind \notin {"Branch", "JumpRegister", "Jump"} =>
                  registers[ProgramCounter] = a + 1

C28_Witness ==
    /\ last.op = "cycle"
    /\ last.trace.word = 18433
    /\ last.trace.pc = 12288
    /\ registers[R7] = 12289
    /\ registers[ProgramCounter] = 12290

\* C29: over all words, decode returns an error exactly for the words whose
\* top four bits are 0xF and whose low byte is outside 0x20 .. 0x25;
\* UnknownRegister and UnknownInstruction are never returned
C29_DecodeTotal ==
    last.op = "decode" =>
        LET w == last.trace.word
        IN  /\ ~last.trace.decoded <=> (w \div 4096 = 15 /\ w % 256 \notin 32 .. 37)
            /\ last.trace.decoded <=> error = NoError
            /\ error.kind \in {"None", "UnknownTrapRoutine"}

C29_Witness ==
    /\ last.op = "decode"
    /\ last.trace.word = 4095
    /\ last.trace.decoded
    /\ last.trace.ins = [op |-> "Branch", pc_offset |-> 65535, condition_flag |-> 7]

\* the instructions that end with update_flags
FlagKinds == {"Add", "And", "Not"} \cup LoadKinds

\* the register operands of a decoded instruction
RegisterOperands(ins) ==
    { ins[f] : f \in (DOMAIN ins) \cap {"destination", "source1", "register", "base", "source"} }
    \cup (IF "mode" \in DOMAIN ins /\ ins.mode = "Register" THEN {ins.source2} ELSE {})

\* the register slots a step changed
Written == { r \in RegisterSlots : registers'[r] # registers[r] }

\* C30: in every state of a run the Condition register is 0, Positive, Zero
\* or Negative; once it is not 0 it is never 0 again, and it is not 0 after a
\* flag-updating instruction has executed; only the flag-updating
\* instructions change it, to the flag of their destination; every decoded
\* register operand is one of R0 .. R7, so that the registers an instruction
\* writes are its destination among R0 .. R7, R7 for a subroutine jump, R0
\* for a character read, and the program counter for the fetch and the jumps
C30_ConditionFlags ==
    [][ /\ registers[Condition] \in {0, Positive, Zero, Negative}
        /\ registers'[Condition] \in {0, Positive, Zero, Negative}
        /\ registers[Condition] # 0 => registers'[Condition] # 0
        /\ last'.op = "cycle" =>
              LET t == last'.trace
                  kind == t.executed
                  dest == Field(t.word, 9, 3)
              IN  /\ t.decoded => RegisterOperands(t.ins) \subseteq R0 .. R7
                  /\ (kind \in FlagKinds /\ status' = "Running") =>
                        /\ registers'[Condition] = FlagOf(registers'[dest])
                        /\ registers'[Condition] # 0
                  /\ kind \notin FlagKinds => Condition \notin Written
                  /\ Written \subseteq
                        {ProgramCounter}
                        \cup (IF kind \in FlagKinds THEN {dest, Condition} ELSE {})
                        \cup (IF kind = "JumpRegister" THEN {R7} ELSE {})
                        \cup (IF kind \in {"GETC", "IN"} THEN {R0} ELSE {})
                  /\ (kind \notin {"Branch", "Jump", "JumpRegister"} /\ kind # "none") =>
                        registers'[ProgramCounter] = (t.pc + 1) % U16_MOD
        /\ last'.op # "cycle" => Condition \notin Written
      ]_vars

\* NOT R0, R0 on R0 = 0xFFFF, reached by ADD R0, R0, #-1 from the start: the
\* flag goes from Negative to Zero
C30_Witness ==
    /\ last.op = "cycle"
    /\ last.trace.word = 36927
    /\ last.pre.regs[Condition] = Negative
    /\ registers[Condition] = Zero
    /\ registers[R0] = 0

\* C31: PUTS and PUTSP return without fault for every R0 whenever the memory
\* holds at least one zero word, the scan going on through 0xFFFF to 0x0000
C31_PutsTerminates ==
    (/\ last.op = "execute"
     /\ last.trace.word \in {61474, 61476}
     /\ Cardinality(DOMAIN last.pre.mem) < U16_MOD) =>
        status = "Executed"

=============================================================================
